---------------------------- MODULE Spec2Model ----------------------------
(***************************************************************************)
(* MRT-UI-Kit: the row edit/create/view dialog, its action buttons, the   *)
(* Value Bridge (updateEditingRow) and the cell input wrappers, as a      *)
(* state machine over the host grid's table state.                        *)
(*                                                                         *)
(* Every handler of the library is synchronous; one action of the model   *)
(* is one whole handler.  The host grid (material-react-table) is the     *)
(* environment: it owns the rows, the editing/creating row, the editing   *)
(* cell, the saving flag and the callbacks, and it may change them        *)
(* between two handlers of the library.                                    *)
(***************************************************************************)
EXTENDS Integers, Sequences, FiniteSets, TLC

(***************************************************************************)
(* Bounds of the model.                                                    *)
(***************************************************************************)
\* number of data rows of the table
NumRows == 2
\* number of events (of the host or of the library) in one run, after the
\* table state the run starts from
MaxOps == 2
\* number of events in one run of the dialog's specification
MaxRenders == 1

(***************************************************************************)
(* JavaScript values.  A value is a tagged record; records of different    *)
(* tags have different fields.  A string is either an opaque text          *)
(* (s |-> "Alice") or, when it is produced by formatting, its characters   *)
(* (chars |-> <<"2","0",...>>).                                            *)
(***************************************************************************)
Undefined == [t |-> "undefined"]
Null == [t |-> "null"]
Str(s) == [t |-> "str", s |-> s]
Chars(q) == [t |-> "str", chars |-> q]
Num(n) == [t |-> "num", n |-> n]
List(q) == [t |-> "list", q |-> q]
\* a Dayjs object; an invalid one (dayjs("undefined"), a half-typed date) is a
\* Dayjs object too
Dayjs(y, m, d) == [t |-> "dayjs", valid |-> TRUE, y |-> y, m |-> m, d |-> d]
InvalidDayjs == [t |-> "dayjs", valid |-> FALSE, y |-> 0, m |-> 0, d |-> 0]

\* dayjs's isDayjs: true of every Dayjs object, valid or not
isDayjs(v) == v.t = "dayjs"

RECURSIVE Digits(_)
Digits(n) == IF n < 10 THEN <<ToString(n)>>
             ELSE Append(Digits(n \div 10), ToString(n % 10))

RECURSIVE padStart(_, _)
padStart(q, w) == IF Len(q) >= w THEN q ELSE padStart(<<"0">> \o q, w)

\* dayjs's format('YYYY-MM-DD'): the year padded to 4 digits, month and day
\* to 2; an invalid date formats as the text "Invalid Date"
formatYMD(v) ==
  IF ~v.valid THEN Str("Invalid Date")
  ELSE Chars(padStart(Digits(v.y), 4) \o <<"-">> \o padStart(Digits(v.m), 2)
             \o <<"-">> \o padStart(Digits(v.d), 2))

\* the value updateEditingRow stores for newValue
storedValue(newValue) ==
  IF isDayjs(newValue) THEN formatYMD(newValue) ELSE newValue


(***************************************************************************)
(* Columns, rows and the heap of row objects.                              *)
(*                                                                         *)
(* A row is a JavaScript object: it has an identity, an id and a reference *)
(* to its pending-values cache (_valuesCache), itself an object.  The      *)
(* table has NumRows data rows; the host makes one more row object when it *)
(* starts creating a row, and setViewingRow (or the host) makes a shallow  *)
(* copy {...row, id} of a row, which shares the cache object and the cells *)
(* of the row it copies.                                                   *)
(***************************************************************************)
\* the columns, one per cell input wrapper
Cols == {"name", "role", "notes", "tags", "dob", "r1_note"}

\* no row: the null of editingRow and creatingRow
NoRow == 0
BaseRows == 1 .. NumRows
CreateObj == NumRows + 1
CopyObj == NumRows + 2
Objs == 1 .. (NumRows + 2)
\* the rows that own cells (a copy has the cells of the row it copies)
CellRows == 1 .. (NumRows + 1)
NoCell == <<0, "">>
Cells == CellRows \X Cols

\* ids the host gives a row under creation: the id MRT_EditDialog tests for
\* and the id material-react-table gives
CreateIds == {"mrt-create-row", "mrt-row-create"}
\* ids the host may give a copy of a row it registers for editing itself
HostCopyIds == {"mrt-view-row"}
\* the id setViewingRow gives its copy
ViewingRowId == "mrt-row-view"

BaseId(o) == "r" \o ToString(o)

\* a row's original data, per column (material-react-table fills the data of
\* a row under creation with '')
original(o, c) ==
  IF o = CreateObj THEN Str("")
  ELSE CASE c = "name" -> Str("Alice")
         [] c = "role" -> Str("user")
         [] c = "notes" -> IF o % 2 = 0 THEN Str("") ELSE Str("hello")
         [] c = "tags" -> List(<<"a", "b">>)
         [] c = "dob" -> IF o % 2 = 0 THEN Null
                         ELSE Chars(<<"1", "9", "9", "9", "-", "1", "2", "-", "3", "1">>)
         [] c = "r1_note" -> Str("memo")

\* a cache is a function from the column keys it holds to values
EmptyCache == [c \in {} |-> Null]
Put(cache, c, v) == [k \in (DOMAIN cache) \cup {c} |-> IF k = c THEN v ELSE cache[k]]
PrimedCache(o) == [c \in Cols |-> original(o, c)]

DeadRow == [id |-> "", vc |-> 0, live |-> FALSE, src |-> 0]

VARIABLES
  rows,             \* heap: row object -> [id, vc (its cache object), live, src]
  caches,           \* heap: cache object -> cache
  editingRow,       \* table state: the row object under editing, or NoRow
  creatingRow,      \* table state: the row object under creation, or NoRow
  editingCell,      \* table state: the cell under editing, or NoCell
  isSaving,         \* table state: the host's saving flag
  editDisplayMode,  \* table option
  callbacks,        \* table options: the callbacks the host defines
  local,            \* the local display value of each cell's input wrapper
  exits,            \* the exit callbacks the host was handed and may invoke
  calls,            \* the host setters and callbacks the last handler called
  last,             \* the last event, with the table state it found
  prev,             \* the event before the last
  columnDefs,       \* table option: the column definitions
  dialog,           \* what MRT_EditDialog last rendered
  widget,           \* what a cell input wrapper last rendered
  steps             \* number of events so far

vars == <<rows, caches, editingRow, creatingRow, editingCell, isSaving,
          editDisplayMode, callbacks, local, exits, calls, last, prev,
          columnDefs, dialog, widget, steps>>

\* the cache object a cell's row reads and writes
CacheOf(s, o) == s.caches[s.rows[o].vc]

\* row.getValue(columnId) of the host: the cached value if the cache holds the
\* key, else the value of the row's original data
getValue(s, o, c) ==
  IF c \in DOMAIN CacheOf(s, o) THEN CacheOf(s, o)[c] ELSE original(o, c)

\* dayjs(x) of a value read from the row: a YYYY-MM-DD text parses to its
\* date, and any other text of this model ('', "undefined", a name) does not
Digit(ch) == CHOOSE n \in 0 .. 9 : ToString(n) = ch
IsDigit(ch) == \E n \in 0 .. 9 : ToString(n) = ch
IsYMD(v) ==
  /\ v.t = "str"
  /\ "chars" \in DOMAIN v
  /\ Len(v.chars) = 10
  /\ v.chars[5] = "-"
  /\ v.chars[8] = "-"
  /\ \A i \in {1, 2, 3, 4, 6, 7, 9, 10} : IsDigit(v.chars[i])
dayjsParse(v) ==
  IF IsYMD(v)
  THEN Dayjs(1000 * Digit(v.chars[1]) + 100 * Digit(v.chars[2])
               + 10 * Digit(v.chars[3]) + Digit(v.chars[4]),
             10 * Digit(v.chars[6]) + Digit(v.chars[7]),
             10 * Digit(v.chars[9]) + Digit(v.chars[10]))
  ELSE InvalidDayjs

\* the initial display value of a cell's wrapper (useState initialisers)
initialLocal(s, o, c) ==
  IF c = "dob" THEN dayjsParse(getValue(s, o, c)) ELSE getValue(s, o, c)

\* the state the handlers read and change, as one record
Cur == [rows |-> rows, caches |-> caches, editingRow |-> editingRow,
        creatingRow |-> creatingRow, editingCell |-> editingCell,
        local |-> local, exits |-> exits, calls |-> <<>>]

Commit(s, ev) ==
  /\ steps < MaxOps
  /\ rows' = s.rows
  /\ caches' = s.caches
  /\ editingRow' = s.editingRow
  /\ creatingRow' = s.creatingRow
  /\ editingCell' = s.editingCell
  /\ local' = s.local
  /\ exits' = s.exits
  /\ calls' = s.calls
  /\ last' = ev
  /\ prev' = last
  /\ steps' = steps + 1
  /\ UNCHANGED <<isSaving, editDisplayMode, callbacks, columnDefs, dialog, widget>>

(***************************************************************************)
(* The host's setters and callbacks, as the library calls them.            *)
(***************************************************************************)
Called(s, c) == [s EXCEPT !.calls = Append(@, c)]

setEditingRow(s, r) ==
  Called([s EXCEPT !.editingRow = r], [f |-> "setEditingRow", row |-> r])

setCreatingRow(s, r) ==
  Called([s EXCEPT !.creatingRow = r], [f |-> "setCreatingRow", row |-> r])

setEditingCell(s, cell) ==
  Called([s EXCEPT !.editingCell = cell], [f |-> "setEditingCell", cell |-> cell])

\* option?.(args): the callback is called if the host defines it
Callback(s, name, r, exit) ==
  IF name \in callbacks
  THEN Called([s EXCEPT !.exits = @ \cup (IF exit = "" THEN {} ELSE {exit})],
              [f |-> name, row |-> r, vc |-> s.rows[r].vc,
               values |-> CacheOf(s, r), exit |-> exit])
  ELSE s

\* editingRow?.id and creatingRow?.id as conditions: the id of a row the
\* host registered, a non-empty text
Truthy(id) == id # ""
IdOf(s, r) == IF r = NoRow THEN "" ELSE s.rows[r].id

(***************************************************************************)
(* Value Bridge: updateEditingRow(table, cell, newValue).                  *)
(* The cell is <<o, c>>: the cell of row object o in column c.             *)
(***************************************************************************)
\* a cache write that replaces the row's cache by one holding the written
\* entry only
writeCache_Replaces(s, o, c, v) ==
  [s EXCEPT !.caches[s.rows[o].vc] = Put(EmptyCache, c, v)]

writeCache(s, o, c, v) == [s EXCEPT !.caches[s.rows[o].vc] = Put(@, c, v)]

\* updateEditingRow that hands the save callback the values before the write
updateEditingRow_SaveBeforeWrite(s, o, c, newValue) ==
  IF Truthy(IdOf(s, s.editingRow))
  THEN LET s2 == setEditingRow(s, o)
           s3 == IF editDisplayMode = "cell"
                 THEN Callback(s2, "onEditingRowSave", o, "setEditingCell")
                 ELSE s2
       IN writeCache(s3, o, c, storedValue(newValue))
  ELSE IF Truthy(IdOf(s, s.creatingRow))
       THEN setCreatingRow(writeCache(s, o, c, storedValue(newValue)), o)
       ELSE writeCache(s, o, c, storedValue(newValue))

\* updateEditingRow that also saves in the creating branch in 'cell' mode
updateEditingRow_SavesOnCreate(s, o, c, newValue) ==
  LET s1 == writeCache(s, o, c, storedValue(newValue))
  IN IF Truthy(IdOf(s1, s1.editingRow))
     THEN LET s2 == setEditingRow(s1, o)
          IN IF editDisplayMode = "cell"
             THEN Callback(s2, "onEditingRowSave", o, "setEditingCell")
             ELSE s2
     ELSE IF Truthy(IdOf(s1, s1.creatingRow))
          THEN LET s2 == setCreatingRow(s1, o)
               IN IF editDisplayMode = "cell"
                  THEN Callback(s2, "onEditingRowSave", o, "setEditingCell")
                  ELSE s2
          ELSE s1

\* updateEditingRow that registers the row for editing when no row is
\* under editing or creation
updateEditingRow_RegistersAlways(s, o, c, newValue) ==
  LET s1 == writeCache(s, o, c, storedValue(newValue))
  IN IF Truthy(IdOf(s1, s1.editingRow))
     THEN LET s2 == setEditingRow(s1, o)
          IN IF editDisplayMode = "cell"
             THEN Callback(s2, "onEditingRowSave", o, "setEditingCell")
             ELSE s2
     ELSE IF Truthy(IdOf(s1, s1.creatingRow))
          THEN setCreatingRow(s1, o)
          ELSE setEditingRow(s1, o)

updateEditingRow(s, o, c, newValue) ==
  LET s1 == writeCache(s, o, c, storedValue(newValue))
  IN IF Truthy(IdOf(s, s.editingRow))
     THEN LET s2 == setEditingRow(s1, o)
          IN IF editDisplayMode = "cell"
             THEN Callback(s2, "onEditingRowSave", o, "setEditingCell")
             ELSE s2
     ELSE IF Truthy(IdOf(s, s.creatingRow))
          THEN setCreatingRow(s1, o)
          ELSE s1

(***************************************************************************)
(* The components' view of the table state: creatingRow?.id === row.id     *)
(* and editingRow?.id === row.id.                                          *)
(***************************************************************************)
isCreating(s, r) == s.creatingRow # NoRow /\ s.rows[s.creatingRow].id = s.rows[r].id
isEditing(s, r) == s.editingRow # NoRow /\ s.rows[s.editingRow].id = s.rows[r].id

(***************************************************************************)
(* MRT_EditCellTextField and MRT_EditCellTextarea.                         *)
(***************************************************************************)
\* saveInputValueToRowCache that tests for the editing row first
saveInputValueToRowCache_EditingFirst(s, o, c, newValue) ==
  LET s1 == writeCache(s, o, c, newValue)
  IN IF isEditing(s, o) THEN setEditingRow(s1, o)
     ELSE IF isCreating(s, o) THEN setCreatingRow(s1, o)
     ELSE s1

\* saveInputValueToRowCache that registers a row that is not the creating
\* row for editing, whether or not it is the editing row
saveInputValueToRowCache_RegistersAlways(s, o, c, newValue) ==
  LET s1 == writeCache(s, o, c, newValue)
  IN IF isCreating(s, o) THEN setCreatingRow(s1, o)
     ELSE setEditingRow(s1, o)

saveInputValueToRowCache(s, o, c, newValue) ==
  LET s1 == writeCache(s, o, c, newValue)
  IN IF isCreating(s, o) THEN setCreatingRow(s1, o)
     ELSE IF isEditing(s, o) THEN setEditingRow(s1, o)
     ELSE s1

setValue(s, o, c, v) == [s EXCEPT !.local[<<o, c>>] = v]

\* isSelectEdit: the column's editVariant is 'select'
isSelectEdit(c) == c = "role"

\* handleChange that saves to the row cache whatever the edit variant
TextField_handleChange_AlwaysSaves(s, o, c, v) ==
  saveInputValueToRowCache(setValue(s, o, c, v), o, c, v)

TextField_handleChange(s, o, c, v) ==
  LET s1 == setValue(s, o, c, v)
  IN IF isSelectEdit(c) THEN saveInputValueToRowCache(s1, o, c, v) ELSE s1

\* handleBlur that exits the editing cell without saving the display value
TextField_handleBlur_NoSave(s, o, c) == setEditingCell(s, NoCell)

TextField_handleBlur(s, o, c) ==
  setEditingCell(saveInputValueToRowCache(s, o, c, s.local[<<o, c>>]), NoCell)

Textarea_handleChange(s, o, c, v) ==
  updateEditingRow(setValue(s, o, c, v), o, c, v)

\* handleBlur that saves the display value through the Value Bridge
Textarea_handleBlur_ThroughBridge(s, o, c) ==
  setEditingCell(updateEditingRow(s, o, c, s.local[<<o, c>>]), NoCell)

Textarea_handleBlur(s, o, c) ==
  setEditingCell(saveInputValueToRowCache(s, o, c, s.local[<<o, c>>]), NoCell)

(***************************************************************************)
(* MRT_CloseDialogButton and MRT_SubmitDialogButton.                       *)
(***************************************************************************)
\* row._valuesCache = {}: the row gets a new, empty cache object; a row
\* object that shared the old one keeps it
SharesCache(s, r) == \E q \in Objs \ {r} : s.rows[q].live /\ s.rows[q].vc = s.rows[r].vc
FreeCache(s) == CHOOSE k \in Objs : /\ \A q \in Objs : s.rows[q].vc # k
                                    /\ \A j \in Objs : (\A q \in Objs : s.rows[q].vc # j) => k <= j
\* a reset that leaves the row its cache
resetValuesCache_Keeps(s, r) == s

resetValuesCache(s, r) ==
  LET k == IF SharesCache(s, r) THEN FreeCache(s) ELSE s.rows[r].vc
  IN [s EXCEPT !.rows[r].vc = k, !.caches[k] = EmptyCache]

\* handleCancel that resets the cache only in the two active branches
handleCancel_ResetWhenActive(s, r) ==
  IF isCreating(s, r)
  THEN resetValuesCache(setCreatingRow(Callback(s, "onCreatingRowCancel", r, ""), NoRow), r)
  ELSE IF isEditing(s, r)
       THEN resetValuesCache(setEditingRow(Callback(s, "onEditingRowCancel", r, ""), NoRow), r)
       ELSE s

\* handleCancel that takes the create branch whenever a row is under creation
handleCancel_AnyCreatingRow(s, r) ==
  LET s1 == IF Truthy(IdOf(s, s.creatingRow))
            THEN setCreatingRow(Callback(s, "onCreatingRowCancel", r, ""), NoRow)
            ELSE IF isEditing(s, r)
                 THEN setEditingRow(Callback(s, "onEditingRowCancel", r, ""), NoRow)
                 ELSE s
  IN resetValuesCache(s1, r)

\* handleCancel with two independent ifs instead of if / else if
handleCancel_BothBranches(s, r) ==
  LET s1 == IF isCreating(s, r)
            THEN setCreatingRow(Callback(s, "onCreatingRowCancel", r, ""), NoRow)
            ELSE s
      s2 == IF isEditing(s, r)
            THEN setEditingRow(Callback(s1, "onEditingRowCancel", r, ""), NoRow)
            ELSE s1
  IN resetValuesCache(s2, r)

handleCancel(s, r) ==
  LET s1 == IF isCreating(s, r)
            THEN setCreatingRow(Callback(s, "onCreatingRowCancel", r, ""), NoRow)
            ELSE IF isEditing(s, r)
                 THEN setEditingRow(Callback(s, "onEditingRowCancel", r, ""), NoRow)
                 ELSE s
  IN resetValuesCache(s1, r)

\* the characters of the input names of this model
charsOf(name) ==
  CASE name = "name" -> <<"n", "a", "m", "e">>
    [] name = "role" -> <<"r", "o", "l", "e">>
    [] name = "notes" -> <<"n", "o", "t", "e", "s">>
    [] name = "r1_note" -> <<"r", "1", "_", "n", "o", "t", "e">>

\* the text before the first '_' (split('_')[0])
RECURSIVE beforeUnderscore(_)
beforeUnderscore(q) ==
  IF q = <<>> \/ Head(q) = "_" THEN ""
  ELSE Head(q) \o beforeUnderscore(Tail(q))

\* the whole name taken for its prefix
namePrefix_WholeName(name) == name

\* the text before the first '_' of an input's name (name.split('_')[0])
namePrefix(name) == beforeUnderscore(charsOf(name))

\* the inputs registered in editInputRefs: the text field and the textarea
\* of the row's cells, named by their column id (name={column.id}), holding
\* their display text (value={value ?? ''})
InputCols == {"name", "notes", "role", "r1_note"}
inputValue(s, o, c) ==
  IF s.local[<<o, c>>] \in {Undefined, Null} THEN Str("") ELSE s.local[<<o, c>>]

\* the scan for autofilled input values
RECURSIVE autofillScan(_, _, _)
autofillScan(s, r, todo) ==
  IF todo = {} THEN s
  ELSE LET c == CHOOSE x \in todo : TRUE
           src == s.rows[r].src
           s1 == IF /\ s.rows[r].id = namePrefix(c)
                    /\ inputValue(s, src, c) # Undefined
                    /\ c \in DOMAIN CacheOf(s, r)
                 THEN writeCache(s, r, c, inputValue(s, src, c))
                 ELSE s
       IN autofillScan(s1, r, todo \ {c})

\* handleSubmitRow with two independent ifs instead of if / else if
handleSubmitRow_BothBranches(s, r) ==
  LET s1 == autofillScan(s, r, InputCols)
      s2 == IF isCreating(s, r)
            THEN Callback(s1, "onCreatingRowSave", r, "setCreatingRow")
            ELSE s1
  IN IF isEditing(s, r)
     THEN Callback(s2, "onEditingRowSave", r, "setEditingRow")
     ELSE s2

\* handleSubmitRow that leaves the mode itself after the save callback
handleSubmitRow_ExitsItself(s, r) ==
  LET s1 == autofillScan(s, r, InputCols)
  IN IF isCreating(s, r)
     THEN setCreatingRow(Callback(s1, "onCreatingRowSave", r, "setCreatingRow"), NoRow)
     ELSE IF isEditing(s, r)
          THEN setEditingRow(Callback(s1, "onEditingRowSave", r, "setEditingRow"), NoRow)
          ELSE s1

handleSubmitRow(s, r) ==
  LET s1 == autofillScan(s, r, InputCols)
  IN IF isCreating(s, r)
     THEN Callback(s1, "onCreatingRowSave", r, "setCreatingRow")
     ELSE IF isEditing(s, r)
          THEN Callback(s1, "onEditingRowSave", r, "setEditingRow")
          ELSE s1

(***************************************************************************)
(* setViewingRow({table, row}): table.setEditingRow({...row, id}).         *)
(***************************************************************************)
copyRow(s, r, id) ==
  [s EXCEPT !.rows[CopyObj] = [id |-> id, vc |-> s.rows[r].vc, live |-> TRUE,
                               src |-> s.rows[r].src]]

setViewingRow(s, r) == setEditingRow(copyRow(s, r, ViewingRowId), CopyObj)

(***************************************************************************)
(* MRT_EditCellAutocomplete and MRT_EditCellDatePicker.                    *)
(***************************************************************************)
Autocomplete_handleOnChange(s, o, c, newValue) ==
  setValue(updateEditingRow(s, o, c, newValue), o, c, newValue)

\* handleDateChange that sets the display value to whatever it is given
handleDateChange_SetsAlways(s, o, c, newValue) ==
  setValue(updateEditingRow(s, o, c, newValue), o, c, newValue)

handleDateChange(s, o, c, newValue) ==
  LET s1 == updateEditingRow(s, o, c, newValue)
  IN IF isDayjs(newValue) THEN setValue(s1, o, c, newValue) ELSE s1

isCellEdit == editDisplayMode = "cell"

\* onAccept that closes the editing cell in every edit display mode
DatePicker_onAccept_AlwaysCloses(s, o, c, value) ==
  setEditingCell(handleDateChange(s, o, c, value), NoCell)

DatePicker_onAccept(s, o, c, value) ==
  LET s1 == handleDateChange(s, o, c, value)
  IN IF isCellEdit THEN setEditingCell(s1, NoCell) ELSE s1

(***************************************************************************)
(* MRT_EditDialog: the render, as a function of the row, the table and the *)
(* props.                                                                  *)
(***************************************************************************)
\* the table's columns, in order (table.getAllColumns()): the data columns
\* and the host's row actions column
TableCols == <<"name", "role", "notes", "tags", "dob", "r1_note", "mrt-row-actions">>

\* mode with the words of the reserved ids transposed
mode_Transposed(id) == IF id = "mrt-row-create" THEN "create"
                       ELSE IF id = "mrt-row-view" THEN "view"
                       ELSE "edit"

mode(id) == IF id = "mrt-create-row" THEN "create"
            ELSE IF id = "mrt-view-row" THEN "view"
            ELSE "edit"

dialogTitle(m) == IF m = "create" THEN "Create"
                  ELSE IF m = "view" THEN "View"
                  ELSE "Edit"

\* String(value), for the values of this model
RECURSIVE joinComma(_)
joinComma(q) == IF q = <<>> THEN ""
                ELSE IF Len(q) = 1 THEN q[1]
                ELSE q[1] \o "," \o joinComma(Tail(q))
String(v) == CASE v.t = "str" -> v
               [] v.t = "num" -> Str(ToString(v.n))
               [] v.t = "list" -> Str(joinComma(v.q))
               [] v.t = "null" -> Str("null")
               [] v.t = "undefined" -> Str("undefined")
               [] v.t = "dayjs" -> formatYMD(v)

renderedCellValue(value) ==
  IF value # Null /\ value # Undefined THEN String(value) ELSE Str("")

\* renderedComponent that prefers the accessorFn to the Cell renderer
renderedComponent_AccessorFirst(s, defs, r, c) ==
  LET value == getValue(s, s.rows[r].src, c)
  IN IF defs[c].accessorFn
     THEN [by |-> "accessorFn", col |-> c, text |-> original(s.rows[r].src, c)]
     ELSE IF defs[c].Cell
          THEN [by |-> "Cell", col |-> c, text |-> renderedCellValue(value)]
          ELSE [by |-> "value", col |-> c, text |-> renderedCellValue(value)]

\* the content of a column's display block
renderedComponent(s, defs, r, c) ==
  LET value == getValue(s, s.rows[r].src, c)
  IN IF defs[c].Cell
     THEN [by |-> "Cell", col |-> c, text |-> renderedCellValue(value)]
     ELSE IF defs[c].accessorFn
          THEN [by |-> "accessorFn", col |-> c, text |-> original(s.rows[r].src, c)]
          ELSE [by |-> "value", col |-> c, text |-> renderedCellValue(value)]

\* the caller's renderViewComponent: absent ("none"), one that wraps every
\* field ("wrap"), or one that returns null for a field whose content is
\* the empty text ("hideEmpty")
Overrides == {"none", "wrap", "hideEmpty"}
NullNode == [kind |-> "null"]
renderViewComponent(override, c, title, content) ==
  IF override = "hideEmpty" /\ content.text = Str("")
  THEN NullNode
  ELSE [kind |-> "custom", col |-> c, title |-> title, content |-> content]

\* one column's entry of the mapped list: null when the row has no cell of
\* the column
viewBlock(s, defs, override, r, c) ==
  IF ~defs[c].hasCell THEN NullNode
  ELSE IF override # "none"
       THEN renderViewComponent(override, c, defs[c].header, renderedComponent(s, defs, r, c))
       ELSE [kind |-> "view", col |-> c, title |-> defs[c].header,
             content |-> renderedComponent(s, defs, r, c)]

\* Array.prototype.filter(Boolean) over nodes: null is dropped
\* filter(Boolean) left out: the empty nodes stay in the list
filterBoolean_KeepsAll(q) == q

filterBoolean(q) == SelectSeq(q, LAMBDA n : n # NullNode)

dataColumns(defs) == SelectSeq(TableCols, LAMBDA c : defs[c].columnDefType = "data")

viewOnlyComponents(s, defs, override, r) ==
  IF mode(s.rows[r].id) # "view" THEN <<>>
  ELSE LET cols == dataColumns(defs)
       IN filterBoolean([i \in 1 .. Len(cols) |-> viewBlock(s, defs, override, r, cols[i])])

\* the caller-supplied components: input elements, each of a cell, or
\* something that is no element (null)
InputElement(o, c) == [kind |-> "input", row |-> o, col |-> c]
isValidElement(n) == n.kind # "null"

\* filteredComponents that keeps every element, whatever its column's Edit
filteredComponents_KeepsAll(defs, components) ==
  SelectSeq(components, LAMBDA n : isValidElement(n))

filteredComponents(defs, components) ==
  SelectSeq(components,
            LAMBDA n : isValidElement(n) /\ defs[n.col].Edit # "null")

\* MRT_SubmitDialogButton, rendered: the icon variant renders the control
\* only when the active mode has a save callback
submitRendered(s, r, variant) ==
  variant = "text"
  \/ (isCreating(s, r) /\ "onCreatingRowSave" \in callbacks)
  \/ (isEditing(s, r) /\ "onEditingRowSave" \in callbacks)

\* MRT_EditActionButtonsAlt that ignores hideSubmitButton
MRT_EditActionButtonsAlt_ShowsSubmit(s, r, variant, hideSubmitButton) ==
  [cancel |-> TRUE,
   submit |-> submitRendered(s, r, variant),
   submitDisabled |-> isSaving]

\* MRT_EditActionButtonsAlt whose submit control is never disabled
MRT_EditActionButtonsAlt_NeverDisabled(s, r, variant, hideSubmitButton) ==
  [cancel |-> TRUE,
   submit |-> ~hideSubmitButton /\ submitRendered(s, r, variant),
   submitDisabled |-> FALSE]

\* MRT_EditActionButtonsAlt, rendered
MRT_EditActionButtonsAlt(s, r, variant, hideSubmitButton) ==
  [cancel |-> TRUE,
   submit |-> ~hideSubmitButton /\ submitRendered(s, r, variant),
   submitDisabled |-> isSaving]

MRT_EditDialog(s, defs, r, components, variant, override) ==
  LET m == mode(s.rows[r].id)
  IN [rendered |-> TRUE, row |-> r, id |-> s.rows[r].id, mode |-> m,
      title |-> dialogTitle(m), given |-> components,
      variant |-> variant, override |-> override,
      components |-> IF m = "view" THEN viewOnlyComponents(s, defs, override, r)
                     ELSE filteredComponents(defs, components),
      actions |-> MRT_EditActionButtonsAlt(s, r, variant, m = "view")]

(***************************************************************************)
(* getTextFieldProps and the render of the cell input wrappers.            *)
(*                                                                         *)
(* A props object is a function from the prop names it holds to values; a  *)
(* configuration layer (muiEditTextFieldProps of the table options or of   *)
(* the column definition) is undefined, a props object, or a function of   *)
(* the cell context that returns one.                                      *)
(***************************************************************************)
EmptyProps == [k \in {} |-> ""]
\* {...a, ...b}
Spread(a, b) ==
  [k \in (DOMAIN a) \cup (DOMAIN b) |-> IF k \in DOMAIN b THEN b[k] ELSE a[k]]

Layer(kind, props) == [kind |-> kind, props |-> props]
NoLayer == Layer("none", EmptyProps)

\* parseFromValuesOrFunc(layer, {cell, column, row, table}); a function layer
\* of this model returns its props with the column id for helper text
parseFromValuesOrFunc(layer, c) ==
  CASE layer.kind = "none" -> EmptyProps
    [] layer.kind = "value" -> layer.props
    [] layer.kind = "func" -> Spread(layer.props, [helperText |-> c])

\* the repository holds two utils modules with a getTextFieldProps
UtilsModules == {"utils.ts", "utils/material-react-table.ts"}

\* getTextFieldProps of src/utils.ts
getTextFieldProps(tableLayer, columnLayer, c) ==
  Spread(parseFromValuesOrFunc(tableLayer, c), parseFromValuesOrFunc(columnLayer, c))

\* getTextFieldProps of src/utils/material-react-table.ts
getTextFieldProps_materialReactTable(tableLayer, columnLayer, c) ==
  Spread(Spread([variant |-> "standard"], parseFromValuesOrFunc(tableLayer, c)),
         parseFromValuesOrFunc(columnLayer, c))

resolveTextFieldProps(utils, tableLayer, columnLayer, c) ==
  IF utils = "utils.ts"
  THEN getTextFieldProps(tableLayer, columnLayer, c)
  ELSE getTextFieldProps_materialReactTable(tableLayer, columnLayer, c)

\* the wrappers, and the column of this model each is the editor of
Wrappers == {"MRT_EditCellTextField", "MRT_EditCellTextarea",
             "MRT_EditCellAutocomplete", "MRT_EditCellDatePicker"}
columnOf(w) ==
  CASE w = "MRT_EditCellTextField" -> "name"
    [] w = "MRT_EditCellTextarea" -> "notes"
    [] w = "MRT_EditCellAutocomplete" -> "tags"
    [] w = "MRT_EditCellDatePicker" -> "dob"

\* the props a wrapper's JSX sets before it spreads textFieldProps
jsxDefaults(w) ==
  CASE w = "MRT_EditCellTextField" -> [variant |-> "standard"]
    [] w = "MRT_EditCellTextarea" -> [variant |-> "standard", size |-> "small"]
    [] OTHER -> EmptyProps

\* textFieldProps of a wrapper: the text field and the textarea spread their
\* own props (...rest) over getTextFieldProps
textFieldProps(w, utils, tableLayer, columnLayer, rest) ==
  IF w \in {"MRT_EditCellTextField", "MRT_EditCellTextarea"}
  THEN Spread(resolveTextFieldProps(utils, tableLayer, columnLayer, columnOf(w)),
              parseFromValuesOrFunc(rest, columnOf(w)))
  ELSE resolveTextFieldProps(utils, tableLayer, columnLayer, columnOf(w))

\* every wrapper taken to return the column's custom editor
defersToEdit_Always(w, defs) == defs[columnOf(w)].Edit # "none"

\* whether a wrapper returns the column's custom editor instead of its widget
defersToEdit(w, defs) ==
  w = "MRT_EditCellTextField" /\ defs[columnOf(w)].Edit # "none"

\* what a wrapper renders: the column's custom editor, or its own widget with
\* the props of its text input
renderWrapper(w, defs, utils, tableLayer, columnLayer, rest) ==
  IF defersToEdit(w, defs)
  THEN [rendered |-> TRUE, wrapper |-> w, output |-> "Edit",
        edit |-> defs[columnOf(w)].Edit, props |-> EmptyProps,
        utils |-> utils, table |-> tableLayer, column |-> columnLayer, rest |-> rest]
  ELSE [rendered |-> TRUE, wrapper |-> w, output |-> "widget",
        edit |-> defs[columnOf(w)].Edit,
        props |-> Spread(jsxDefaults(w),
                         textFieldProps(w, utils, tableLayer, columnLayer, rest)),
        utils |-> utils, table |-> tableLayer, column |-> columnLayer, rest |-> rest]

(***************************************************************************)
(* Initial states: the table states a run of the library starts from.  The *)
(* table shows its data rows (the host has read every cell, so their       *)
(* caches hold the original values); the host may have a row under         *)
(* editing, or a copy of a row made by setViewingRow or by the application *)
(* itself, and may have a row under creation, its inputs mounted.          *)
(***************************************************************************)
DisplayModes == {"cell", "modal"}
AllCallbacks == {"onEditingRowSave", "onCreatingRowSave",
                 "onEditingRowCancel", "onCreatingRowCancel"}
CallbackConfigs == {AllCallbacks, {}}

\* an event: what happened, to which row and cell, with which value, and
\* the editing row, the creating row and the row's cache it found
Event(op, r, c, v) ==
  [op |-> op, row |-> r, col |-> c, val |-> v,
   wasEditing |-> editingRow, wasCreating |-> creatingRow,
   pre |-> IF r = NoRow THEN EmptyCache ELSE caches[rows[r].vc]]
NoEvent == [op |-> "none"]

\* a column definition, with whether the rows have a cell of the column
ColumnDef(type, header, Cell, accessorFn, Edit, hasCell) ==
  [columnDefType |-> type, header |-> header, Cell |-> Cell,
   accessorFn |-> accessorFn, Edit |-> Edit, hasCell |-> hasCell]
PlainDef(c) ==
  IF c = "mrt-row-actions"
  THEN ColumnDef("display", "Actions", FALSE, FALSE, "none", TRUE)
  ELSE ColumnDef("data", c, FALSE, FALSE, "none", TRUE)
PlainDefs == [i \in 1 .. Len(TableCols) |-> PlainDef(TableCols[i])]
DefsOf(q) == [c \in {TableCols[i] : i \in 1 .. Len(TableCols)} |->
                q[CHOOSE i \in 1 .. Len(TableCols) : TableCols[i] = c]]

BaseRow(o) == [id |-> BaseId(o), vc |-> o, live |-> TRUE, src |-> o]
\* the row under creation: o = "" when the host creates no row
CreateRow(id) ==
  IF id = "" THEN DeadRow
  ELSE [id |-> id, vc |-> CreateObj, live |-> TRUE, src |-> CreateObj]
\* the copy of a data row: src = NoRow when there is none
CopyRow(src, id) ==
  IF src = NoRow THEN DeadRow
  ELSE [id |-> id, vc |-> src, live |-> TRUE, src |-> src]

InitHeap(createId, copySrc, copyId) ==
  [rows |-> [o \in Objs |-> IF o \in BaseRows THEN BaseRow(o)
                            ELSE IF o = CreateObj THEN CreateRow(createId)
                            ELSE CopyRow(copySrc, copyId)],
   caches |-> [k \in Objs |-> IF k \in BaseRows \/ (k = CreateObj /\ createId # "")
                              THEN PrimedCache(k) ELSE EmptyCache]]

\* the initial states with the editing row among `editing` (CopyObj stands
\* for a copy of a data row), the column definitions among `defs`, the edit
\* display mode among `modes`, and the saves the host has in progress among
\* `saves`: the exit callbacks it holds and its saving flag
InitWithSaves(createIds, editing, copyIds, defs, modes, saves) ==
  \E createId \in createIds \cup {""}, er \in editing,
     copySrc \in BaseRows, copyId \in copyIds, save \in saves :
    LET h == InitHeap(createId, IF er = CopyObj THEN copySrc ELSE NoRow, copyId)
    IN /\ er # CopyObj => (copySrc = 1 /\ copyId = ViewingRowId)
       /\ rows = h.rows
       /\ caches = h.caches
       /\ editingRow = er
       /\ creatingRow = IF createId = "" THEN NoRow ELSE CreateObj
       /\ editingCell = NoCell
       /\ isSaving = save.saving
       /\ editDisplayMode \in modes
       /\ callbacks \in CallbackConfigs
       /\ local = [cell \in Cells |-> IF h.rows[cell[1]].live
                                      THEN initialLocal(h, cell[1], cell[2])
                                      ELSE Undefined]
       /\ exits = save.exits
       /\ calls = <<>>
       /\ last = NoEvent
       /\ prev = NoEvent
       /\ columnDefs \in defs
       /\ dialog = [rendered |-> FALSE]
       /\ widget = [rendered |-> FALSE]
       /\ steps = 0

\* no save in progress
NoSave == [exits |-> {}, saving |-> FALSE]

\* the initial states in which the host has no save in progress
InitWith(createIds, editing, copyIds, defs, modes) ==
  InitWithSaves(createIds, editing, copyIds, defs, modes, {NoSave})

Init == InitWith({"mrt-row-create"}, {NoRow} \cup BaseRows, {ViewingRowId},
                 {DefsOf(PlainDefs)}, DisplayModes)

\* the column definitions the dialog is rendered with: "name" of every kind
\* (its Edit absent, or one that returns null, an element or undefined),
\* "tags" with a custom Cell renderer or without a cell on the row, "notes"
\* with an accessorFn, "role" with an Edit that renders nothing
NameDefs ==
  {ColumnDef("data", "Name", FALSE, FALSE, "none", TRUE),
   ColumnDef("data", "Name", TRUE, FALSE, "none", TRUE),
   ColumnDef("data", "Name", FALSE, TRUE, "none", TRUE),
   ColumnDef("data", "Name", TRUE, TRUE, "none", TRUE),
   ColumnDef("data", "Name", FALSE, FALSE, "null", TRUE),
   ColumnDef("data", "Name", FALSE, FALSE, "element", TRUE),
   ColumnDef("data", "Name", FALSE, FALSE, "undefined", TRUE),
   ColumnDef("data", "Name", FALSE, FALSE, "none", FALSE),
   ColumnDef("group", "Name", FALSE, FALSE, "none", TRUE)}
TagsDefs ==
  {ColumnDef("data", "Tags", TRUE, FALSE, "none", TRUE),
   ColumnDef("data", "Tags", FALSE, FALSE, "none", FALSE)}
DialogDefs ==
  {[DefsOf(PlainDefs) EXCEPT
      !["name"] = n, !["tags"] = t,
      !["notes"] = ColumnDef("data", "Notes", FALSE, TRUE, "none", TRUE),
      !["role"] = ColumnDef("data", "Role", FALSE, FALSE, "null", TRUE)]
   : n \in NameDefs, t \in TagsDefs}

\* the column definitions the input wrappers are rendered with: no column
\* with a custom editor, or every column with one
InputDefs ==
  {DefsOf(PlainDefs),
   [c \in DOMAIN DefsOf(PlainDefs) |->
      IF c \in Cols THEN [DefsOf(PlainDefs)[c] EXCEPT !.Edit = "element"]
      ELSE DefsOf(PlainDefs)[c]]}

InitRender == InitWith({"mrt-row-create"}, {NoRow} \cup BaseRows, {ViewingRowId},
                       InputDefs, DisplayModes)

\* the column definitions of an editing session: no column with a custom
\* editor, or "role" with one that returns null
SessionDefs ==
  {DefsOf(PlainDefs),
   [DefsOf(PlainDefs) EXCEPT
      !["role"] = ColumnDef("data", "Role", FALSE, FALSE, "null", TRUE)]}

InitSession == InitWith(CreateIds, {NoRow} \cup BaseRows, {ViewingRowId},
                        SessionDefs, DisplayModes)

\* the table states in which the host has at most one of the editing row
\* and the creating row set
InitExclusive ==
  /\ Init
  /\ (editingRow = NoRow \/ creatingRow = NoRow)

\* the table states in which the host has at most one of the editing row
\* and the creating row set, and may be running the save of that row that an
\* earlier submit handed it: it holds the exit callback and may have set its
\* saving flag
InitSaving ==
  /\ InitWithSaves({"mrt-row-create"}, {NoRow} \cup BaseRows, {ViewingRowId},
                   {DefsOf(PlainDefs)}, DisplayModes,
                   {NoSave} \cup {[exits |-> {e}, saving |-> b] :
                                    e \in {"setCreatingRow", "setEditingRow"},
                                    b \in BOOLEAN})
  /\ (editingRow = NoRow \/ creatingRow = NoRow)
  /\ "setCreatingRow" \in exits => (creatingRow # NoRow /\ "onCreatingRowSave" \in callbacks)
  /\ "setEditingRow" \in exits => (editingRow # NoRow /\ "onEditingRowSave" \in callbacks)

InitDialog == InitWith(CreateIds, {NoRow, CopyObj} \cup BaseRows,
                       {ViewingRowId} \cup HostCopyIds, DialogDefs, {"modal"})

(***************************************************************************)
(* The host grid and the application, as the environment.                  *)
(***************************************************************************)
LiveObjs == {o \in Objs : rows[o].live}
LiveCellRows == {o \in CellRows : rows[o].live}

\* table.setEditingRow(row) by the application (the edit row action)
HostSetEditingRow ==
  \E r \in LiveObjs \cup {NoRow} :
    Commit([Cur EXCEPT !.editingRow = r], Event("hostSetEditingRow", r, "", Undefined))

\* table.setEditingRow({...row, id}) by the application, with an id of its own
HostSetEditingRowCopy ==
  \E r \in BaseRows, id \in HostCopyIds :
    Commit([copyRow(Cur, r, id) EXCEPT !.editingRow = CopyObj],
           Event("hostSetEditingRowCopy", r, "", Undefined))

\* table.setCreatingRow(row | null) by the application
HostSetCreatingRow ==
  \E r \in LiveCellRows \cup {NoRow} :
    Commit([Cur EXCEPT !.creatingRow = r], Event("hostSetCreatingRow", r, "", Undefined))

\* the host renders a row's cells anew: row.getValue fills the cache with the
\* original value of each key it lacks, and the row's inputs are mounted with
\* the stored values
HostMount ==
  \E o \in LiveCellRows :
    LET s1 == [Cur EXCEPT !.caches[rows[o].vc] =
                 [c \in Cols |-> getValue(Cur, o, c)]]
    IN Commit([s1 EXCEPT !.local =
                 [cell \in Cells |-> IF cell[1] = o
                                     THEN initialLocal(s1, cell[1], cell[2])
                                     ELSE @[cell]]],
              Event("hostMount", o, "", Undefined))

\* table.setEditingCell(cell) by the host (a double click on a cell)
HostSetEditingCell ==
  \E o \in LiveCellRows, c \in {"name"} :
    Commit([Cur EXCEPT !.editingCell = <<o, c>>], Event("hostSetEditingCell", o, c, Undefined))

\* the host invokes an exit callback it was handed by a save callback
invokeExit(s, e) ==
  CASE e = "setEditingCell" -> [s EXCEPT !.editingCell = NoCell]
    [] e = "setEditingRow" -> [s EXCEPT !.editingRow = NoRow]
    [] e = "setCreatingRow" -> [s EXCEPT !.creatingRow = NoRow]

HostInvokeExit ==
  \E e \in exits : Commit(invokeExit(Cur, e), Event(e, NoRow, "", Undefined))

\* the host sets or clears its saving flag
HostSetSaving ==
  /\ steps < MaxOps
  /\ isSaving' = ~isSaving
  /\ last' = Event("hostSetSaving", NoRow, "", Undefined)
  /\ prev' = last
  /\ calls' = <<>>
  /\ steps' = steps + 1
  /\ UNCHANGED <<rows, caches, editingRow, creatingRow, editingCell,
                 editDisplayMode, callbacks, local, exits, columnDefs, dialog,
                 widget>>

(***************************************************************************)
(* The library's handlers and functions, as actions.                       *)
(***************************************************************************)
TextVals == {Str("Alicia"), Str("Bob")}
AutoVals == {List(<<"a">>), Num(7), Null}
DateVals == {Dayjs(2024, 1, 5), InvalidDayjs, Null}
\* the values a caller of updateEditingRow passes
BridgeVals(c) ==
  IF c = "dob" THEN DateVals \cup {Dayjs(987, 11, 30)}
  ELSE {Str("Alicia"), Num(7), List(<<"a">>), Null, Undefined}

\* updateEditingRow called by an editor of the application
UpdateEditingRow ==
  \E o \in LiveCellRows, c \in {"name", "dob"} :
    \E v \in BridgeVals(c) :
      Commit(updateEditingRow(Cur, o, c, v), Event("updateEditingRow", o, c, v))

SetViewingRow ==
  \E r \in LiveObjs :
    Commit(setViewingRow(Cur, r), Event("setViewingRow", r, "", Undefined))

FieldVals(c) == IF c = "name" THEN TextVals ELSE {Str("Alicia")}

TextFieldChange ==
  \E o \in LiveCellRows, c \in {"name", "role"} :
   \E v \in FieldVals(c) :
    Commit(TextField_handleChange(Cur, o, c, v), Event("textFieldChange", o, c, v))

\* a change of a text field that is not a select, not yet blurred when the
\* submit control is activated
TextFieldChangeUnsaved ==
  \E o \in LiveCellRows, c \in {"name", "r1_note"} :
    Commit(TextField_handleChange(Cur, o, c, Str("Bob")),
           Event("textFieldChange", o, c, Str("Bob")))

TextFieldBlur ==
  \E o \in LiveCellRows, c \in {"name", "role"} :
    Commit(TextField_handleBlur(Cur, o, c), Event("textFieldBlur", o, c, local[<<o, c>>]))

TextareaChange ==
  \E o \in LiveCellRows, v \in FieldVals("notes") :
    Commit(Textarea_handleChange(Cur, o, "notes", v), Event("textareaChange", o, "notes", v))

TextareaBlur ==
  \E o \in LiveCellRows :
    Commit(Textarea_handleBlur(Cur, o, "notes"),
           Event("textareaBlur", o, "notes", local[<<o, "notes">>]))

AutocompleteChange ==
  \E o \in LiveCellRows, v \in AutoVals :
    Commit(Autocomplete_handleOnChange(Cur, o, "tags", v),
           Event("autocompleteChange", o, "tags", v))

DateChange ==
  \E o \in LiveCellRows, v \in DateVals :
    Commit(handleDateChange(Cur, o, "dob", v), Event("dateChange", o, "dob", v))

DateAccept ==
  \E o \in LiveCellRows, v \in DateVals :
    Commit(DatePicker_onAccept(Cur, o, "dob", v), Event("dateAccept", o, "dob", v))

CancelClick ==
  \E r \in LiveObjs :
    Commit(handleCancel(Cur, r), Event("cancel", r, "", Undefined))

\* the submit control is disabled while the host's saving flag is set
SubmitClick ==
  \E r \in LiveObjs :
    /\ ~isSaving
    /\ Commit(handleSubmitRow(Cur, r), Event("submit", r, "", Undefined))

\* the host renders MRT_EditDialog for a row, with the input components of
\* the row's cells (or with those and something that is no element)
ComponentsOf(o) ==
  {[i \in 1 .. Len(TableCols) - 1 |-> InputElement(o, TableCols[i])],
   <<InputElement(o, "name"), NullNode, InputElement(o, "tags")>>}

RenderDialog ==
  \E r \in LiveObjs, variant \in {"text", "icon"}, override \in Overrides :
    \E components \in ComponentsOf(rows[r].src) :
      /\ dialog' = MRT_EditDialog(Cur, columnDefs, r, components, variant, override)
      /\ last' = Event("render", r, "", Undefined)
      /\ prev' = last
      /\ calls' = <<>>
      /\ steps' = steps + 1
      /\ UNCHANGED <<rows, caches, editingRow, creatingRow, editingCell, isSaving,
                     editDisplayMode, callbacks, local, exits, columnDefs, widget>>

\* the configuration layers the wrappers are rendered with
TableLayers == {NoLayer, Layer("value", [variant |-> "outlined"]),
                Layer("func", [variant |-> "filled"])}
ColumnLayers == {NoLayer, Layer("value", [variant |-> "filled", helperText |-> "col"]),
                 Layer("func", EmptyProps)}
RestLayers == {NoLayer, Layer("value", [variant |-> "outlined", helperText |-> "mine"])}

\* the host renders a cell input wrapper
RenderInput ==
  \E w \in Wrappers, utils \in UtilsModules, tableLayer \in TableLayers,
     columnLayer \in ColumnLayers, rest \in RestLayers :
    /\ steps < MaxOps
    /\ rest # NoLayer => w \in {"MRT_EditCellTextField", "MRT_EditCellTextarea"}
    /\ widget' = renderWrapper(w, columnDefs, utils, tableLayer, columnLayer, rest)
    /\ last' = Event("renderInput", NoRow, columnOf(w), Undefined)
    /\ prev' = last
    /\ calls' = <<>>
    /\ steps' = steps + 1
    /\ UNCHANGED <<rows, caches, editingRow, creatingRow, editingCell, isSaving,
                   editDisplayMode, callbacks, local, exits, columnDefs, dialog>>

(***************************************************************************)
(* Specifications.                                                         *)
(***************************************************************************)
\* the Value Bridge, called in any table state
NextBridge ==
  \/ HostSetEditingRow
  \/ HostSetEditingCell
  \/ HostInvokeExit
  \/ UpdateEditingRow

SpecBridge == Init /\ [][NextBridge]_vars

\* the action buttons
NextButtons ==
  \/ HostSetEditingRow
  \/ HostSetEditingRowCopy
  \/ HostSetCreatingRow
  \/ HostInvokeExit
  \/ HostSetSaving
  \/ SetViewingRow
  \/ AutocompleteChange
  \/ TextFieldBlur
  \/ CancelClick
  \/ SubmitClick

SpecButtons == Init /\ [][NextButtons]_vars

\* the submit control and the inputs it scans
NextSubmit ==
  \/ HostSetEditingRow
  \/ TextFieldChangeUnsaved
  \/ CancelClick
  \/ SubmitClick

SpecSubmit == Init /\ [][NextSubmit]_vars

\* the render of the cell input wrappers
NextRender ==
  /\ steps < MaxRenders
  /\ \/ HostSetEditingRow
     \/ RenderInput

SpecRender == InitRender /\ [][NextRender]_vars

\* the change events of the four wrappers
NextInputs ==
  \/ HostSetEditingRow
  \/ TextFieldChange
  \/ TextareaChange
  \/ AutocompleteChange
  \/ DateChange

SpecInputs == Init /\ [][NextInputs]_vars

\* the date picker
NextDate ==
  \/ HostSetEditingRow
  \/ HostSetEditingCell
  \/ DateAccept

SpecDate == Init /\ [][NextDate]_vars

\* an editing session: the dialog is rendered for a row, its inputs are
\* changed, blurred and accepted, and the submit control is activated
NextSession ==
  /\ steps < MaxOps
  /\ \/ RenderDialog
     \/ TextFieldChange
     \/ TextFieldBlur
     \/ TextareaChange
     \/ DateAccept
     \/ SubmitClick

SpecSession == InitSession /\ [][NextSession]_vars

\* the operations of the library that touch the table state, with the exit
\* callbacks the host was handed, and no other event of the host; the Value
\* Bridge is written through the textarea, the autocomplete and the date
\* picker
NextLibrary ==
  \/ AutocompleteChange
  \/ TextFieldChange
  \/ TextFieldBlur
  \/ TextareaChange
  \/ TextareaBlur
  \/ DateAccept
  \/ SubmitClick
  \/ CancelClick
  \/ HostInvokeExit

SpecLibrary == InitExclusive /\ [][NextLibrary]_vars

\* the writes to a row's pending-values cache: the Value Bridge and the blur
\* of the text field and of the textarea, after a change or a setViewingRow,
\* in a table whose host defines every callback
InitWrites ==
  /\ Init
  /\ callbacks = AllCallbacks

NextWrites ==
  \/ SetViewingRow
  \/ UpdateEditingRow
  \/ TextFieldChange
  \/ TextFieldBlur
  \/ TextareaBlur

SpecWrites == InitWrites /\ [][NextWrites]_vars

\* submit, cancel and the host's late exit callback, around a save
NextSaving ==
  \/ HostSetSaving
  \/ HostInvokeExit
  \/ SubmitClick
  \/ CancelClick

SpecSaving == InitSaving /\ [][NextSaving]_vars

\* the text field and the textarea
NextFields ==
  \/ HostSetEditingRow
  \/ HostSetEditingCell
  \/ HostMount
  \/ TextFieldChange
  \/ TextFieldBlur
  \/ TextareaChange
  \/ TextareaBlur

SpecFields == Init /\ [][NextFields]_vars

\* the dialog
NextDialog ==
  /\ steps < MaxRenders
  /\ \/ HostSetEditingRowCopy
     \/ SetViewingRow
     \/ RenderDialog

SpecDialog == InitDialog /\ [][NextDialog]_vars

\* every event of the host and of the library
Next ==
  \/ HostSetEditingRow
  \/ HostSetEditingRowCopy
  \/ HostSetCreatingRow
  \/ HostMount
  \/ HostSetEditingCell
  \/ HostInvokeExit
  \/ HostSetSaving
  \/ UpdateEditingRow
  \/ SetViewingRow
  \/ TextFieldChange
  \/ TextFieldBlur
  \/ TextareaChange
  \/ TextareaBlur
  \/ AutocompleteChange
  \/ DateChange
  \/ DateAccept
  \/ CancelClick
  \/ SubmitClick
  \/ (steps < MaxOps /\ RenderDialog)

Spec == Init /\ [][Next]_vars

(***************************************************************************)
(* Properties.                                                             *)
(***************************************************************************)
\* the calls of the last handler to the host function(s) named in fs
CallsTo(fs) == SelectSeq(calls, LAMBDA k : k.f \in fs)
CallNames == [i \in 1 .. Len(calls) |-> calls[i].f]

\* whether the last event's row was the active creating / editing row when
\* the handler ran (creatingRow?.id === row.id, editingRow?.id === row.id)
wasCreatingRow ==
  last.wasCreating # NoRow /\ rows[last.wasCreating].id = rows[last.row].id
wasEditingRow ==
  last.wasEditing # NoRow /\ rows[last.wasEditing].id = rows[last.row].id

JustRendered == last.op = "render" /\ dialog.rendered

\* C1: the dialog's mode is a total function of the row id: the create
\* sentinel gives create, the view sentinel gives view, every other id gives
\* edit; exactly one mode holds and the title is Create, View or Edit
\* accordingly.
C1_ModeOfRowId ==
  JustRendered =>
    /\ dialog.mode \in {"create", "view", "edit"}
    /\ (dialog.id = "mrt-create-row") <=> (dialog.mode = "create")
    /\ (dialog.id = "mrt-view-row") <=> (dialog.mode = "view")
    /\ (dialog.id \notin {"mrt-create-row", "mrt-view-row"}) <=> (dialog.mode = "edit")
    /\ (dialog.mode = "create") <=> (dialog.title = "Create")
    /\ (dialog.mode = "view") <=> (dialog.title = "View")
    /\ (dialog.mode = "edit") <=> (dialog.title = "Edit")

C1_Witness ==
  /\ JustRendered
  /\ dialog.id = "mrt-create-row"
  /\ dialog.mode = "create"
  /\ dialog.title = "Create"

\* C2: after setViewingRow({table, row}) the table's editing row carries the
\* view identifier the dialog's mode computation recognises: the dialog for
\* that editing row computes mode = view.
C2_ViewingRowIsViewed ==
  last.op = "setViewingRow" =>
    /\ editingRow # NoRow
    /\ mode(rows[editingRow].id) = "view"

\* C3: for a row with id "mrt-view-row" the dialog renders only read-only
\* display blocks, none of the caller-supplied input components, and no
\* submit control; the cancel control is rendered.
C3_ViewRowIsReadOnly ==
  (JustRendered /\ dialog.id = "mrt-view-row") =>
    /\ \A i \in 1 .. Len(dialog.components) :
         /\ dialog.components[i].kind \in {"view", "custom"}
         /\ \A j \in 1 .. Len(dialog.given) : dialog.components[i] # dialog.given[j]
    /\ ~dialog.actions.submit
    /\ dialog.actions.cancel

C3_Witness ==
  /\ JustRendered
  /\ dialog.id = "mrt-view-row"
  /\ dialog.variant = "text"
  /\ Len(dialog.given) > 0
  /\ Len(dialog.components) > 0
  /\ creatingRow # NoRow
  /\ editingRow = dialog.row

\* the data columns of the table, and those of them the row has no cell of
DataCols == {c \in DOMAIN columnDefs : columnDefs[c].columnDefType = "data"}
DataColsWithoutCell == {c \in DataCols : ~columnDefs[c].hasCell}
\* the data columns for which the render-override returns an empty node
DataColsOverriddenEmpty ==
  {c \in DataCols \ DataColsWithoutCell :
     /\ dialog.override # "none"
     /\ renderViewComponent(dialog.override, c, columnDefs[c].header,
                            renderedComponent(Cur, columnDefs, dialog.row, c)) = NullNode}

\* C9, as claimed: in view mode the number of display blocks is the number
\* of data columns minus the number of those the row has no cell of, for
\* every render-override function.
C9_BlocksAsClaimed ==
  (JustRendered /\ dialog.mode = "view") =>
    Len(dialog.components) = Cardinality(DataCols) - Cardinality(DataColsWithoutCell)

\* C9, amended: in view mode the number of display blocks is the number of
\* data columns minus the number of those the row has no cell of, minus the
\* number of those for which the render-override function returns an empty
\* node; without a render-override function it is the number claimed.
C9_BlocksAmended ==
  (JustRendered /\ dialog.mode = "view") =>
    /\ Len(dialog.components) = Cardinality(DataCols) - Cardinality(DataColsWithoutCell)
                                  - Cardinality(DataColsOverriddenEmpty)
    /\ dialog.override = "none" => DataColsOverriddenEmpty = {}

C9_Witness ==
  /\ JustRendered
  /\ dialog.mode = "view"
  /\ dialog.override = "none"
  /\ DataColsWithoutCell # {}
  /\ DataCols # DOMAIN columnDefs
  /\ Len(dialog.components) = Cardinality(DataCols) - Cardinality(DataColsWithoutCell)

\* the row's pending-values map after the last handler
CacheAfter == caches[rows[last.row].vc]

\* C4: cancel always leaves the row's pending-values cache empty, whether
\* the row was the creating row, the editing row or neither.
C4_CancelEmptiesCache ==
  last.op = "cancel" => CacheAfter = EmptyCache

C4_Witness ==
  /\ last.op = "cancel"
  /\ last.pre # EmptyCache
  /\ ~wasCreatingRow
  /\ ~wasEditingRow
  /\ CacheAfter = EmptyCache

\* C5: submit invokes only the save callback of the active mode: the
\* create-save callback when the row is the active creating row, otherwise
\* the edit-save callback when the row is the active editing row; never
\* both, and none when the row is neither.
C5_SubmitSavesActiveMode ==
  last.op = "submit" =>
    LET saves == CallsTo({"onCreatingRowSave", "onEditingRowSave"})
        active == IF wasCreatingRow THEN {"onCreatingRowSave"}
                  ELSE IF wasEditingRow THEN {"onEditingRowSave"}
                  ELSE {}
    IN /\ Len(saves) = Cardinality(active \cap callbacks)
       /\ \A i \in 1 .. Len(saves) :
            /\ saves[i].f \in active
            /\ saves[i].row = last.row
       /\ Len(saves) <= 1

C5_Witness ==
  /\ last.op = "submit"
  /\ wasCreatingRow
  /\ wasEditingRow
  /\ CallNames = <<"onCreatingRowSave">>

\* C6: in 'cell' edit display mode with a row under active editing, each
\* updateEditingRow invokes the host's edit-save callback exactly once,
\* within the call, with the row's full pending-values map already holding
\* the new value, and with an exit callback that clears the editing cell.
C6_CellModeSavesOnce ==
  (/\ last.op = "updateEditingRow"
   /\ editDisplayMode = "cell"
   /\ last.wasEditing # NoRow
   /\ "onEditingRowSave" \in callbacks) =>
    LET saves == CallsTo({"onEditingRowSave"})
    IN /\ Len(saves) = 1
       /\ saves[1].row = last.row
       /\ saves[1].values = Put(last.pre, last.col, storedValue(last.val))
       /\ saves[1].values = CacheAfter
       /\ saves[1].exit = "setEditingCell"
       /\ invokeExit(Cur, "setEditingCell").editingCell = NoCell
       /\ CallNames = <<"setEditingRow", "onEditingRowSave">>

C6_Witness ==
  /\ last.op = "updateEditingRow"
  /\ editDisplayMode = "cell"
  /\ last.wasEditing # NoRow
  /\ last.wasEditing # last.row
  /\ editingCell # NoCell
  /\ Len(CallsTo({"onEditingRowSave"})) = 1
  /\ CacheAfter # last.pre

\* C7: the Value Bridge stores a date-like value as its YYYY-MM-DD string
\* and stores a value that is not date-like unchanged.
C7_StoresDateAsYMD ==
  last.op = "updateEditingRow" =>
    IF isDayjs(last.val)
    THEN IsYMD(CacheAfter[last.col])
    ELSE CacheAfter[last.col] = last.val

\* C8: for a text field of column c of the active editing row, a change to
\* v followed by blur leaves the cache holding v under c and makes exactly
\* one call that clears the editing cell.
C8_ChangeThenBlurSaves ==
  (/\ last.op = "textFieldBlur"
   /\ prev.op = "textFieldChange"
   /\ prev.row = last.row
   /\ prev.col = last.col
   /\ last.wasEditing = last.row) =>
    /\ CacheAfter[last.col] = prev.val
    /\ Len(CallsTo({"setEditingCell"})) = 1
    /\ CallsTo({"setEditingCell"})[1].cell = NoCell
    /\ editingCell = NoCell

C8_Witness ==
  /\ last.op = "textFieldBlur"
  /\ prev.op = "textFieldChange"
  /\ prev.row = last.row
  /\ prev.col = last.col
  /\ last.col = "name"
  /\ last.wasEditing = last.row
  /\ prev.val = Str("Alicia")
  /\ last.pre["name"] # Str("Alicia")
  /\ CacheAfter["name"] = Str("Alicia")

\* C10: cancel invokes the cancel callback of the active mode and then
\* clears exactly the corresponding table state: creating for the creating
\* row, otherwise editing for the editing row; the other state is unchanged,
\* and for a row that is neither nothing is invoked and nothing is cleared.
C10_CancelClearsActiveMode ==
  last.op = "cancel" =>
    IF wasCreatingRow
    THEN /\ CallNames = (IF "onCreatingRowCancel" \in callbacks
                         THEN <<"onCreatingRowCancel">> ELSE <<>>)
                        \o <<"setCreatingRow">>
         /\ \A i \in 1 .. Len(calls) : calls[i].row = (IF calls[i].f = "setCreatingRow"
                                                       THEN NoRow ELSE last.row)
         /\ creatingRow = NoRow
         /\ editingRow = last.wasEditing
    ELSE IF wasEditingRow
    THEN /\ CallNames = (IF "onEditingRowCancel" \in callbacks
                         THEN <<"onEditingRowCancel">> ELSE <<>>)
                        \o <<"setEditingRow">>
         /\ \A i \in 1 .. Len(calls) : calls[i].row = (IF calls[i].f = "setEditingRow"
                                                       THEN NoRow ELSE last.row)
         /\ editingRow = NoRow
         /\ creatingRow = last.wasCreating
    ELSE /\ calls = <<>>
         /\ creatingRow = last.wasCreating
         /\ editingRow = last.wasEditing

C10_Witness ==
  /\ last.op = "cancel"
  /\ wasCreatingRow
  /\ last.wasEditing # NoRow
  /\ CallNames = <<"onCreatingRowCancel", "setCreatingRow">>
  /\ creatingRow = NoRow
  /\ editingRow = last.wasEditing

\* C11: submit hands the save callback the row's pending-values cache and
\* an exit callback, and clears neither the create nor the edit state itself;
\* the exit callback of create mode, when the host invokes it, sets the
\* creating row to null and leaves the editing row, and the exit callback of
\* edit mode sets the editing row to null and leaves the creating row.
C11_SubmitExitsThroughHost ==
  /\ last.op = "submit" =>
       /\ creatingRow = last.wasCreating
       /\ editingRow = last.wasEditing
       /\ \A i \in 1 .. Len(calls) :
            /\ calls[i].f \in {"onCreatingRowSave", "onEditingRowSave"}
            /\ calls[i].values = CacheAfter
            /\ calls[i].exit = (IF calls[i].f = "onCreatingRowSave"
                                THEN "setCreatingRow" ELSE "setEditingRow")
            /\ calls[i].exit \in exits
  /\ last.op = "setCreatingRow" =>
       /\ creatingRow = NoRow
       /\ editingRow = last.wasEditing
  /\ last.op = "setEditingRow" =>
       /\ editingRow = NoRow
       /\ creatingRow = last.wasCreating

C11_Witness ==
  /\ prev.op = "submit"
  /\ prev.wasCreating # NoRow
  /\ prev.row = prev.wasCreating
  /\ last.op = "setCreatingRow"
  /\ last.wasCreating = prev.wasCreating
  /\ creatingRow = NoRow
  /\ editingRow # NoRow

\* C12: the submit control, where it is rendered, is disabled exactly while
\* the host's saving flag is true, and no operation of the library (write,
\* blur, submit, cancel, exit callback) changes the saving flag: only the
\* host does, so while the host leaves the flag set the control stays
\* disabled.
C12_DisabledWhileSaving ==
  /\ [](\A r \in LiveObjs, variant \in {"text", "icon"} :
          LET a == MRT_EditActionButtonsAlt(Cur, r, variant, FALSE)
          IN a.submit => (a.submitDisabled <=> isSaving))
  /\ [][last'.op # "hostSetSaving" => isSaving' = isSaving]_vars

C12_Witness ==
  /\ prev.op = "hostSetSaving"
  /\ last.op = "cancel"
  /\ isSaving
  /\ \E r \in LiveObjs :
       /\ MRT_EditActionButtonsAlt(Cur, r, "icon", FALSE).submit
       /\ MRT_EditActionButtonsAlt(Cur, r, "icon", FALSE).submitDisabled

\* the text before the first '_' of each input name
PrefixOf == [name |-> "name", role |-> "role", notes |-> "notes", r1_note |-> "r1"]
\* the inputs the scan of the last submit had to copy
ScanMatched ==
  {c \in InputCols : PrefixOf[c] = rows[last.row].id /\ c \in DOMAIN last.pre}

\* C13: on submit the autofill scan copies an input's text into the cache
\* only for the inputs whose name prefix (the text before the first '_') is
\* the row id and whose name is already a key of the cache; it adds no key,
\* changes the entry of no other key, and the save callback sees the copied
\* values.
C13_AutofillScan ==
  last.op = "submit" =>
    /\ DOMAIN CacheAfter = DOMAIN last.pre
    /\ \A c \in DOMAIN last.pre :
         CacheAfter[c] = IF c \in ScanMatched
                         THEN inputValue(Cur, rows[last.row].src, c)
                         ELSE last.pre[c]
    /\ \A i \in 1 .. Len(calls) : calls[i].values = CacheAfter

C13_Witness ==
  /\ last.op = "submit"
  /\ rows[last.row].id = "r1"
  /\ ScanMatched = {"r1_note"}
  /\ last.pre["r1_note"] = Str("memo")
  /\ CacheAfter["r1_note"] = Str("Bob")
  /\ Len(calls) = 1
  /\ calls[1].values["r1_note"] = Str("Bob")

\* C14: a Value Bridge write re-registers the cell's row as the active
\* editing row if that row is the row the host has under editing; a write
\* through a cell of a row that is not the one under editing does not
\* replace the host's active editing row.
C14_WriteKeepsEditingRow ==
  (last.op = "updateEditingRow" /\ last.wasEditing # NoRow) =>
    IF wasEditingRow
    THEN /\ editingRow = last.row
         /\ \E i \in 1 .. Len(calls) :
              calls[i].f = "setEditingRow" /\ calls[i].row = last.row
    ELSE editingRow = last.wasEditing

\* C15: when the cell's row is the creating row and no editing row is
\* active, a Value Bridge write re-registers the row as the active creating
\* row, leaves the editing row unset and invokes no save callback, in
\* single-cell edit display mode too.
C15_WriteRegistersCreatingRow ==
  (last.op = "updateEditingRow" /\ last.wasEditing = NoRow /\ wasCreatingRow) =>
    /\ creatingRow = last.row
    /\ editingRow = NoRow
    /\ CallNames = <<"setCreatingRow">>
    /\ calls[1].row = last.row

C15_Witness ==
  /\ last.op = "updateEditingRow"
  /\ last.wasEditing = NoRow
  /\ wasCreatingRow
  /\ editDisplayMode = "cell"
  /\ "onEditingRowSave" \in callbacks
  /\ "onCreatingRowSave" \in callbacks
  /\ creatingRow = last.row
  /\ CacheAfter # last.pre

\* a write with neither a row under editing nor a row under creation
WriteWithoutActiveRow ==
  last.op = "updateEditingRow" /\ last.wasEditing = NoRow /\ last.wasCreating = NoRow

\* C16, as claimed: with neither an active editing row nor an active
\* creating row a Value Bridge write calls no host setter or callback and
\* leaves the table state and the row's pending-values cache as they were.
C16_NoActiveRowNoOp ==
  WriteWithoutActiveRow =>
    /\ calls = <<>>
    /\ editingRow = NoRow
    /\ creatingRow = NoRow
    /\ CacheAfter = last.pre

\* C16, amended: with neither an active editing row nor an active creating
\* row a Value Bridge write calls no host setter or callback and leaves the
\* table's editing and creating state as it was; the row's pending-values
\* cache gets the written value under the cell's column key and keeps its
\* other entries.
C16_NoActiveRowWritesOnly ==
  WriteWithoutActiveRow =>
    /\ calls = <<>>
    /\ editingRow = NoRow
    /\ creatingRow = NoRow
    /\ CacheAfter = Put(last.pre, last.col, storedValue(last.val))

C16_Witness ==
  /\ WriteWithoutActiveRow
  /\ calls = <<>>
  /\ last.val = Str("Alicia")
  /\ last.pre["name"] = Str("Alice")
  /\ CacheAfter["name"] = Str("Alicia")

JustRenderedInput == last.op = "renderInput" /\ widget.rendered

\* the layers of the claimed merge for the last rendered wrapper, in order
ClaimedLayers ==
  <<[variant |-> "standard"],
    parseFromValuesOrFunc(widget.table, columnOf(widget.wrapper)),
    parseFromValuesOrFunc(widget.column, columnOf(widget.wrapper)),
    IF widget.wrapper \in {"MRT_EditCellTextField", "MRT_EditCellTextarea"}
    THEN parseFromValuesOrFunc(widget.rest, columnOf(widget.wrapper))
    ELSE EmptyProps>>
\* the last of the claimed layers that sets the key k, or 0
LastSetting(k) ==
  IF \E i \in 1 .. 4 : k \in DOMAIN ClaimedLayers[i]
  THEN CHOOSE i \in 1 .. 4 :
         /\ k \in DOMAIN ClaimedLayers[i]
         /\ \A j \in (i + 1) .. 4 : k \notin DOMAIN ClaimedLayers[j]
  ELSE 0

\* C17: the effective input configuration is the layered merge of the
\* built-in baseline (variant = standard), the table-wide configuration, the
\* column-level configuration and, for the text field and the textarea, the
\* per-instance props, a later layer overriding an earlier one key by key;
\* when no layer sets the variant the result's variant is standard.
C17_LayeredProps ==
  (JustRenderedInput /\ widget.output = "widget") =>
    \A k \in {"variant", "helperText"} :
      IF LastSetting(k) = 0 THEN k \notin DOMAIN widget.props
      ELSE /\ k \in DOMAIN widget.props
           /\ widget.props[k] = ClaimedLayers[LastSetting(k)][k]

\* C18, as claimed: every cell input wrapper defers to the column's custom
\* editor when the column declares one: it renders the custom editor's
\* output and not its own widget.
C18_AllDeferToEdit ==
  (JustRenderedInput /\ columnDefs[columnOf(widget.wrapper)].Edit # "none") =>
    /\ widget.output = "Edit"
    /\ widget.edit = columnDefs[columnOf(widget.wrapper)].Edit

\* C18, amended: of the cell input wrappers only the text field defers to
\* the column's custom editor when the column declares one, rendering the
\* custom editor's output and not its own widget; the textarea, the
\* autocomplete and the date picker render their own widget whether or not
\* the column declares a custom editor.
C18_TextFieldDefersToEdit ==
  JustRenderedInput =>
    IF /\ widget.wrapper = "MRT_EditCellTextField"
       /\ columnDefs[columnOf(widget.wrapper)].Edit # "none"
    THEN /\ widget.output = "Edit"
         /\ widget.edit = columnDefs[columnOf(widget.wrapper)].Edit
    ELSE widget.output = "widget"

C18_Witness ==
  /\ JustRenderedInput
  /\ widget.wrapper = "MRT_EditCellDatePicker"
  /\ columnDefs["dob"].Edit = "element"
  /\ widget.output = "widget"
  /\ widget.edit = "element"

ChangeEvents == {"textFieldChange", "textareaChange", "autocompleteChange", "dateChange"}

\* C19, as claimed: immediately after a user change event of any cell input
\* wrapper the row's cache entry for the column and the wrapper's local
\* display value both hold the new value.
C19_ChangeWritesCacheAndLocal ==
  last.op \in ChangeEvents =>
    /\ last.col \in DOMAIN CacheAfter
    /\ CacheAfter[last.col] = last.val
    /\ local[<<last.row, last.col>>] = last.val

\* C19, amended: on a user change event the textarea and the autocomplete
\* push the new value through the Value Bridge and set their local display
\* value, so both hold the new value; the date picker pushes the value
\* through the Value Bridge, which stores its normalised form, and sets its
\* local display value only to a date object; the text field sets its local
\* display value and writes the cache only when it is a select, and
\* otherwise leaves the cache as it was until blur.
C19_ChangePerWrapper ==
  [][LET e == last'
         before == caches[rows[e.row].vc]
         after == caches'[rows'[e.row].vc]
     IN /\ e.op \in {"textareaChange", "autocompleteChange"} =>
             /\ after = Put(before, e.col, e.val)
             /\ local'[<<e.row, e.col>>] = e.val
        /\ e.op = "dateChange" =>
             /\ after = Put(before, e.col, storedValue(e.val))
             /\ local'[<<e.row, e.col>>] = IF isDayjs(e.val) THEN e.val
                                           ELSE local[<<e.row, e.col>>]
        /\ e.op = "textFieldChange" =>
             /\ local'[<<e.row, e.col>>] = e.val
             /\ after = IF isSelectEdit(e.col) THEN Put(before, e.col, e.val)
                        ELSE before
             /\ ~isSelectEdit(e.col) => calls' = <<>>]_vars

C19_Witness ==
  /\ last.op = "textFieldChange"
  /\ last.col = "name"
  /\ last.val = Str("Alicia")
  /\ last.wasEditing = last.row
  /\ local[<<last.row, "name">>] = Str("Alicia")
  /\ CacheAfter["name"] = Str("Alice")

\* the calls a Value Bridge write of the last event had to make
BridgeCalls ==
  IF last.wasEditing # NoRow
  THEN <<"setEditingRow">> \o (IF editDisplayMode = "cell" /\ "onEditingRowSave" \in callbacks
                               THEN <<"onEditingRowSave">> ELSE <<>>)
  ELSE IF last.wasCreating # NoRow THEN <<"setCreatingRow">> ELSE <<>>

\* C20: in single-cell edit mode the date picker's accept handler first
\* writes the value through the Value Bridge (which invokes the host save
\* callback when an editing row is active) and afterwards calls
\* setEditingCell(null); in every other edit display mode an accept never
\* calls setEditingCell.
C20_AcceptClosesCellEdit ==
  last.op = "dateAccept" =>
    /\ CacheAfter[last.col] = storedValue(last.val)
    /\ IF editDisplayMode = "cell"
       THEN /\ CallNames = BridgeCalls \o <<"setEditingCell">>
            /\ calls[Len(calls)].cell = NoCell
            /\ editingCell = NoCell
            /\ \A i \in 1 .. Len(calls) - 1 :
                 calls[i].f = "onEditingRowSave" =>
                   calls[i].values[last.col] = storedValue(last.val)
       ELSE /\ CallNames = BridgeCalls
            /\ CallsTo({"setEditingCell"}) = <<>>

C20_Witness ==
  /\ prev.op = "hostSetEditingCell"
  /\ last.op = "dateAccept"
  /\ editDisplayMode = "cell"
  /\ last.val = Dayjs(2024, 1, 5)
  /\ CallNames = <<"setEditingRow", "onEditingRowSave", "setEditingCell">>
  /\ editingCell = NoCell

\* the given components that are input elements whose column's custom
\* editor, if any, does not return null
KeptInputs ==
  SelectSeq(dialog.given,
            LAMBDA n : n.kind = "input" /\ columnDefs[n.col].Edit # "null")

\* C21: in create and edit mode the dialog renders exactly the caller's
\* input components, in their order, minus those whose column declares a
\* custom editor that returns null; a component whose column declares no
\* custom editor, or one that renders something, is kept.
C21_RendersFilteredInputs ==
  (JustRendered /\ dialog.mode # "view") =>
    /\ dialog.components = KeptInputs
    /\ \A i \in 1 .. Len(dialog.given) :
         LET n == dialog.given[i]
         IN (n.kind = "input" /\ columnDefs[n.col].Edit \in {"none", "element"})
              => \E j \in 1 .. Len(dialog.components) : dialog.components[j] = n
    /\ \A j \in 1 .. Len(dialog.components) :
         columnDefs[dialog.components[j].col].Edit # "null"

C21_Witness ==
  /\ JustRendered
  /\ dialog.mode = "edit"
  /\ columnDefs["name"].Edit = "element"
  /\ columnDefs["role"].Edit = "null"
  /\ Len(dialog.given) = Len(TableCols) - 1
  /\ Len(dialog.components) = Len(dialog.given) - 1
  /\ dialog.components[1].col = "name"
  /\ dialog.components[2].col = "notes"

\* the text of a cell's value: its string, or the empty text for null and
\* undefined
ValueText(o, c) ==
  LET v == getValue(Cur, o, c)
  IN IF v \in {Null, Undefined} THEN Str("") ELSE String(v)

\* C22: in view mode the content of each display block is the column's
\* custom cell renderer's output if the column declares one, else the value
\* accessor function applied to the row's original data, else the stringified
\* cell value (the empty text for null or undefined); with a render-override
\* function the block is that function's result for the chosen content and
\* the column's title.
C22_ViewContentPrecedence ==
  (JustRendered /\ dialog.mode = "view") =>
    \A i \in 1 .. Len(dialog.components) :
      LET b == dialog.components[i]
          d == columnDefs[b.col]
          o == rows[dialog.row].src
      IN /\ b.title = d.header
         /\ b.content.col = b.col
         /\ b.content.by = (IF d.Cell THEN "Cell"
                            ELSE IF d.accessorFn THEN "accessorFn" ELSE "value")
         /\ b.content.text = (IF ~d.Cell /\ d.accessorFn THEN original(o, b.col)
                              ELSE ValueText(o, b.col))
         /\ IF dialog.override = "none" THEN b.kind = "view"
            ELSE b = renderViewComponent(dialog.override, b.col, d.header, b.content)

C22_Witness ==
  /\ JustRendered
  /\ dialog.mode = "view"
  /\ dialog.override = "wrap"
  /\ columnDefs["name"].Cell
  /\ columnDefs["name"].accessorFn
  /\ \E i, j, k \in 1 .. Len(dialog.components) :
       /\ dialog.components[i].col = "name"
       /\ dialog.components[i].content.by = "Cell"
       /\ dialog.components[j].col = "notes"
       /\ dialog.components[j].content.by = "accessorFn"
       /\ dialog.components[k].col = "dob"
       /\ dialog.components[k].content = [by |-> "value", col |-> "dob", text |-> Str("")]
       /\ dialog.components[k].kind = "custom"

\* the column keys of the inputs the dialog rendered
RenderedInputKeys ==
  {dialog.components[i].col : i \in 1 .. Len(dialog.components)}

\* C23: when submit invokes a host save callback for the row the dialog was
\* rendered for in create or edit mode, the key set of the pending-values map
\* passed to the callback is exactly the set of column keys of the rendered
\* inputs, after any sequence of change, blur and accept events.
C23_SubmitKeysAreRenderedInputs ==
  (/\ last.op = "submit"
   /\ dialog.rendered
   /\ dialog.row = last.row
   /\ dialog.mode # "view") =>
    \A i \in 1 .. Len(calls) :
      calls[i].f \in {"onCreatingRowSave", "onEditingRowSave"} =>
        DOMAIN calls[i].values = RenderedInputKeys

\* C24: when the host starts with at most one of the editing row and the
\* creating row set, at most one of them is set after any sequence of
\* operations of the library (Value Bridge writes, text-field and textarea
\* change and blur, date accept, submit, cancel, exit callbacks): no operation
\* sets a creating row when none was active, nor an editing row when none was
\* active.
C24_AtMostOneActiveRow ==
  /\ [](editingRow = NoRow \/ creatingRow = NoRow)
  /\ [][/\ creatingRow = NoRow => creatingRow' = NoRow
        /\ editingRow = NoRow => editingRow' = NoRow]_vars

C24_Witness ==
  /\ prev.op = "textareaChange"
  /\ prev.wasCreating # NoRow
  /\ prev.row # prev.wasCreating
  /\ last.op = "textFieldBlur"
  /\ last.wasCreating = prev.row
  /\ last.row # last.wasCreating
  /\ creatingRow = prev.row
  /\ editingRow = NoRow

CacheWrites == {"updateEditingRow", "textFieldBlur", "textareaBlur"}

\* C25: a Value Bridge write and a blur of the text field or of the textarea
\* change only the entry of the cell's own column in the cache of the cell's
\* row: the other entries of that cache, and the cache of every other row,
\* are as they were (a copy of the row made by setViewingRow holds the
\* row's own cache object).
C25_WriteChangesOwnEntryOnly ==
  [][LET e == last'
     IN e.op \in CacheWrites =>
          LET k == rows[e.row].vc
          IN /\ rows' = rows
             /\ \A j \in Objs \ {k} : caches'[j] = caches[j]
             /\ \A o \in LiveObjs :
                  rows[o].vc # k => caches'[rows'[o].vc] = caches[rows[o].vc]
             /\ DOMAIN caches'[k] = (DOMAIN caches[k]) \cup {e.col}
             /\ \A c \in (DOMAIN caches[k]) \ {e.col} : caches'[k][c] = caches[k][c]
             /\ caches'[k][e.col] = (IF e.op = "updateEditingRow"
                                     THEN storedValue(e.val)
                                     ELSE local[<<e.row, e.col>>])]_vars

C25_Witness ==
  /\ prev.op = "textFieldChange"
  /\ prev.val = Str("Bob")
  /\ last.op = "textFieldBlur"
  /\ last.row = prev.row
  /\ last.col = "name"
  /\ last.pre["name"] = Str("Alice")
  /\ CacheAfter = Put(last.pre, "name", Str("Bob"))
  /\ CacheAfter["role"] = Str("user")
  /\ \E o \in BaseRows \ {last.row} : caches[rows[o].vc] = PrimedCache(o)

RowSetters == {"setEditingRow", "setCreatingRow"}

\* C26: a blur of the text field or of the textarea writes the local display
\* value into the cache and calls setEditingCell(null) whatever the table
\* state, and re-registers the row only when its id is the creating row's
\* (setCreatingRow, tested first) or else the editing row's (setEditingRow);
\* for a row that is neither it calls no row setter.  A Value Bridge write
\* re-registers the cell's row whenever an editing row (tested first) or a
\* creating row is active, whichever row that is.
C26_BlurRegistersOwnRowOnly ==
  /\ last.op \in {"textFieldBlur", "textareaBlur"} =>
       /\ CacheAfter = Put(last.pre, last.col, last.val)
       /\ CallNames = (IF wasCreatingRow THEN <<"setCreatingRow">>
                       ELSE IF wasEditingRow THEN <<"setEditingRow">>
                       ELSE <<>>) \o <<"setEditingCell">>
       /\ \A i \in 1 .. Len(calls) - 1 : calls[i].row = last.row
       /\ calls[Len(calls)].cell = NoCell
       /\ editingCell = NoCell
  /\ last.op = "updateEditingRow" =>
       LET setters == CallsTo(RowSetters)
       IN /\ Len(setters) = (IF last.wasEditing # NoRow \/ last.wasCreating # NoRow
                             THEN 1 ELSE 0)
          /\ \A i \in 1 .. Len(setters) :
               /\ setters[i].row = last.row
               /\ setters[i].f = (IF last.wasEditing # NoRow THEN "setEditingRow"
                                  ELSE "setCreatingRow")

C26_Witness ==
  /\ prev.op = "updateEditingRow"
  /\ prev.wasEditing # NoRow
  /\ prev.wasEditing # prev.row
  /\ last.op = "textareaBlur"
  /\ last.row = prev.row
  /\ wasCreatingRow
  /\ wasEditingRow
  /\ CallNames = <<"setCreatingRow", "setEditingCell">>

SaveCallbacks == {"onEditingRowSave", "onCreatingRowSave"}

\* C27: in 'cell' edit display mode with an active editing row, each change
\* event of the textarea invokes the host's edit-save callback once (so n
\* changes make n invocations) and its blur invokes no save callback; a text
\* field that is not a select invokes no save callback on change or on blur,
\* and leaves the cache as it is on change: the cache gets the value on blur.
C27_SavesPerChange ==
  /\ (/\ last.op = "textareaChange"
      /\ editDisplayMode = "cell"
      /\ last.wasEditing # NoRow) =>
       LET saves == CallsTo(SaveCallbacks)
       IN /\ Len(saves) = (IF "onEditingRowSave" \in callbacks THEN 1 ELSE 0)
          /\ \A i \in 1 .. Len(saves) :
               /\ saves[i].f = "onEditingRowSave"
               /\ saves[i].row = last.row
               /\ saves[i].values[last.col] = last.val
  /\ last.op = "textareaBlur" => CallsTo(SaveCallbacks) = <<>>
  /\ (last.op \in {"textFieldChange", "textFieldBlur"} /\ ~isSelectEdit(last.col)) =>
       CallsTo(SaveCallbacks) = <<>>
  /\ (last.op = "textFieldChange" /\ ~isSelectEdit(last.col)) =>
       /\ CacheAfter = last.pre
       /\ calls = <<>>
  /\ (last.op = "textFieldBlur" /\ ~isSelectEdit(last.col)) =>
       CacheAfter = Put(last.pre, last.col, last.val)

C27_Witness ==
  /\ prev.op = "textareaChange"
  /\ last.op = "textareaChange"
  /\ prev.row = last.row
  /\ editDisplayMode = "cell"
  /\ prev.wasEditing = last.row
  /\ last.wasEditing = last.row
  /\ CallNames = <<"setEditingRow", "onEditingRowSave">>
  /\ calls[2].values["notes"] = Str("Alicia")
  /\ prev.pre["notes"] # Str("Alicia")

\* C28: when the date picker reports a cleared (null) value the row's cache
\* entry for the column becomes null and the picker's display value stays the
\* date it was, so the two can disagree; after a change to a date d the
\* display value is d and the cache entry is d formatted as YYYY-MM-DD, which
\* for a valid d reads back as d.
C28_ClearedDateKeepsDisplay ==
  [][LET e == last'
         cell == <<e.row, e.col>>
         entry == caches'[rows'[e.row].vc][e.col]
     IN e.op = "dateChange" =>
          /\ e.val = Null =>
               /\ entry = Null
               /\ local'[cell] = local[cell]
          /\ isDayjs(e.val) =>
               /\ local'[cell] = e.val
               /\ entry = formatYMD(e.val)
               /\ e.val.valid => (IsYMD(entry) /\ dayjsParse(entry) = local'[cell])]_vars

C28_Witness ==
  /\ prev.op = "dateChange"
  /\ prev.val = Dayjs(2024, 1, 5)
  /\ last.op = "dateChange"
  /\ last.row = prev.row
  /\ last.val = Null
  /\ last.pre["dob"] = formatYMD(Dayjs(2024, 1, 5))
  /\ CacheAfter["dob"] = Null
  /\ local[<<last.row, "dob">>] = Dayjs(2024, 1, 5)

\* the ids of a row shown for viewing: the id the dialog shows in view mode
\* and the id setViewingRow gives
ViewIds == HostCopyIds \cup {ViewingRowId}

\* C29: when the dialog's row is a view row and the table's active editing
\* row, cancel invokes the host's edit-cancel callback once and sets the
\* editing row to null, never invoking the create-cancel callback or touching
\* the creating row: one cancel closes a view session opened through
\* setEditingRow.  The row a view copy was made of keeps its id throughout.
C29_CancelClosesViewSession ==
  /\ (/\ last.op = "cancel"
      /\ rows[last.row].id \in ViewIds
      /\ wasEditingRow) =>
       /\ CallNames = (IF "onEditingRowCancel" \in callbacks
                       THEN <<"onEditingRowCancel">> ELSE <<>>)
                      \o <<"setEditingRow">>
       /\ calls[Len(calls)].row = NoRow
       /\ \A i \in 1 .. Len(calls) - 1 : calls[i].row = last.row
       /\ editingRow = NoRow
       /\ creatingRow = last.wasCreating
  /\ \A o \in BaseRows : rows[o].id = BaseId(o)
  /\ \A o \in LiveObjs : rows[o].src # CreateObj => rows[rows[o].src].id = BaseId(rows[o].src)

C29_Witness ==
  /\ prev.op = "hostSetEditingRowCopy"
  /\ last.op = "cancel"
  /\ last.row = CopyObj
  /\ mode(rows[last.row].id) = "view"
  /\ last.wasEditing = CopyObj
  /\ last.wasCreating # NoRow
  /\ CallNames = <<"onEditingRowCancel", "setEditingRow">>
  /\ editingRow = NoRow
  /\ creatingRow = last.wasCreating
  /\ rows[rows[CopyObj].src].id = BaseId(rows[CopyObj].src)

ExitOps == {"setCreatingRow", "setEditingRow"}

\* row r is neither the creating row nor the editing row of the table state
\* <<er, cr>>, and its cache is empty
Closed(rws, cchs, er, cr, r) ==
  /\ cr = NoRow \/ rws[cr].id # rws[r].id
  /\ er = NoRow \/ rws[er].id # rws[r].id
  /\ cchs[rws[r].vc] = EmptyCache

\* C30: the cancel control is not disabled by the saving flag, so cancel can
\* fire between a submit and the host's later call of the exit callback.  In
\* every interleaving of submit, cancel and exit callback for a row, once
\* cancel has fired the row is neither under creation nor under editing (the
\* state it was in is null) and its cache is empty, and a later exit
\* callback, or a submit, leaves both so.
C30_CancelOutlastsLateExit ==
  /\ [](last.op = "cancel" =>
          /\ Closed(rows, caches, editingRow, creatingRow, last.row)
          /\ wasCreatingRow => creatingRow = NoRow
          /\ (wasEditingRow /\ ~wasCreatingRow) => editingRow = NoRow)
  /\ [][\A r \in LiveObjs :
          (/\ Closed(rows, caches, editingRow, creatingRow, r)
           /\ last'.op \in ExitOps \cup {"submit", "hostSetSaving"})
            => Closed(rows', caches', editingRow', creatingRow', r)]_vars

C30_Witness ==
  /\ isSaving
  /\ prev.op = "cancel"
  /\ prev.wasEditing = prev.row
  /\ prev.pre # EmptyCache
  /\ last.op = "setEditingRow"
  /\ last.wasEditing = NoRow
  /\ editingRow = NoRow
  /\ creatingRow = NoRow
  /\ caches[rows[prev.row].vc] = EmptyCache

=============================================================================
